---- MODULE Spec2Model ----
(***************************************************************************)
(* Model of src/app/api/getgitcommit/route.ts: the POST webhook handler,   *)
(* the commit/branch fetcher getCommit and the downstream forwarder        *)
(* updateCommit.  One request is followed from its arrival to its          *)
(* response (or to its uncaught rejection); every await is a point where   *)
(* the handler is suspended and the network decides what happens next.     *)
(***************************************************************************)
EXTENDS Naturals, Sequences, FiniteSets, TLC

\* ---------------------------------------------------------------- bounds
MaxCommits == 3          \* longest commit list the upstream returns
MaxBranches == 2         \* longest branch list the upstream returns

\* ------------------------------------------------------- JavaScript values
\* string | undefined | null : a value that is either absent or a string
Undef == [defined |-> FALSE, str |-> ""]
Str(s) == [defined |-> TRUE, str |-> s]

\* !v is false exactly for a non-empty string
Truthy(v) == v.defined /\ v.str # ""

\* `${v}` : undefined is rendered as the text "undefined"
TemplateString(v) == IF v.defined THEN v.str ELSE "undefined"

\* ------------------------------------------------------------ environment
EnvValues == {Undef, Str(""), Str("x")}
EnvNames == {"GITHUB_REPO_OWNER", "GITHUB_REPO_NAME", "GITHUB_TOKEN", "BASE_URL"}
Environments == [EnvNames -> EnvValues]

\* values of the X-GitHub-Event header; Undef is the absent header (null)
EventHeaders == {Undef, Str(""), Str("ping"), Str("Push"), Str("push"), Str("getBranch")}

Shas == {"a1", "b2", "c3"}
BranchNameSet == {"main", "dev"}

RECURSIVE SeqsUpTo(_, _)
SeqsUpTo(S, n) ==
  IF n = 0 THEN {<<>>}
  ELSE LET shorter == SeqsUpTo(S, n - 1)
       IN shorter \cup {Append(s, e) : s \in {t \in shorter : Len(t) = n - 1}, e \in S}

\* what GET /repos/{owner}/{repo}/commits can answer: commit stubs
CommitLists == SeqsUpTo({[sha |-> s, node_id |-> "n"] : s \in Shas}, MaxCommits)

\* what GET /repos/{owner}/{repo}/branches can answer
BranchLists == SeqsUpTo({[name |-> b, protected |-> FALSE] : b \in BranchNameSet}, MaxBranches)

\* what GET /repos/{owner}/{repo}/commits/{sha} answers for a sha
UpstreamDetail(sha) ==
  [sha |-> sha,
   node_id |-> "n",
   commit |-> [author |-> [name |-> "author-" \o sha, date |-> "2024-01-01T00:00:00Z",
                           email |-> "e@example.org"],
               message |-> "msg-" \o sha],
   files |-> <<[filename |-> "f-" \o sha, status |-> "modified",
                additions |-> 2, deletions |-> 1, changes |-> 3, patch |-> "@@"]>>]

\* what the downstream service can answer to the forwarding POST
DownstreamBodies == {"ok", "updated"}
DownstreamErrors == {[status |-> 404, statusText |-> "Not Found"],
                     [status |-> 429, statusText |-> "Too Many Requests"],
                     [status |-> 503, statusText |-> "Service Unavailable"]}

\* errors axios.post can throw: an AxiosError with a response, an AxiosError
\* without one (network level), or any other exception
NoErrorResponse == [present |-> FALSE, status |-> 0, statusText |-> ""]
HttpError(e) == [isAxiosError |-> TRUE,
                 response |-> [present |-> TRUE, status |-> e.status, statusText |-> e.statusText]]
NetworkErrors == {[isAxiosError |-> TRUE, response |-> NoErrorResponse],
                  [isAxiosError |-> FALSE, response |-> NoErrorResponse]}

\* ------------------------------------------------------------------ state
VARIABLES
  env,          \* process.env at module load
  pc,           \* where the handler is: idle, listing, branches, details, posting, done, threw
  eventType,    \* the X-GitHub-Event header of the request
  calls,        \* outbound HTTP calls issued so far, in order
  stubs,        \* the commit list the upstream returned
  branchData,   \* the branch list the upstream returned
  listState,    \* commit-list call: none, pending, ok, failed
  fetchState,   \* per commit stub: pending, ok, failed, hung
  results,      \* per commit stub: the value its mapper promise resolved to
  completed,    \* indices of the detail fetches in the order they fulfilled
  branchState,  \* branches call: none, pending, ok, failed
  commitDetails, \* the local commitDetails of POST once getCommit(true) returned
  posted,       \* bodies posted to the downstream endpoint, in order
  postOutcome,  \* what the downstream call ended with
  response      \* the response the handler returned

vars == <<env, pc, eventType, calls, stubs, branchData, listState, fetchState,
          results, completed, branchState, commitDetails, posted, postOutcome, response>>

\* module-level constants of route.ts
owner == env["GITHUB_REPO_OWNER"]
repo == env["GITHUB_REPO_NAME"]
githubToken == env["GITHUB_TOKEN"]
notionUpdateApiUrl == Str(TemplateString(env["BASE_URL"]) \o "/api/updatenotioncalendar")

NoResponse == [status |-> 0, body |-> [none |-> TRUE]]
NoOutcome == [kind |-> "none", status |-> 0, statusText |-> "", data |-> ""]
NoResult == [sha |-> "", author |-> "", date |-> "", message |-> "", files |-> <<>>]

Json(body, status) == [status |-> status, body |-> body]

Call(kind, url) == [kind |-> kind, url |-> url]
ReposUrl == "https://api.github.com/repos/" \o TemplateString(owner) \o "/" \o TemplateString(repo)
CommitsCall == Call("commits", ReposUrl \o "/commits")
BranchesCall == Call("branches", ReposUrl \o "/branches")
DetailCall(sha) == Call("detail", ReposUrl \o "/commits/" \o sha)
PostCall == Call("post", notionUpdateApiUrl.str)

\* ------------------------------------------------------- pure operators
\* route.ts line 122: the configuration gate
GateRejects == ~Truthy(owner) \/ ~Truthy(repo) \/ ~Truthy(githubToken) \/ ~Truthy(notionUpdateApiUrl)

\* variant: the header value compared without regard to case
Dispatch_IgnoreCase(ev) ==
  IF ev \in {Str("push"), Str("Push")} THEN "push"
  ELSE IF ev = Str("getBranch") THEN "getBranch"
  ELSE "unsupported"

\* lines 128-136: the branch of POST an event-type header selects
Dispatch(ev) ==
  IF ev = Str("push") THEN "push"
  ELSE IF ev = Str("getBranch") THEN "getBranch"
  ELSE "unsupported"

\* getCommit(true) on push, getCommit(false) on getBranch
IncludeDetails == Dispatch(eventType) = "push"

\* variant: branch-only mode goes straight to the branches call
GetCommitFirstCall_BranchFirst(includeDetails) ==
  IF includeDetails THEN CommitsCall ELSE BranchesCall

\* lines 41-48: the call getCommit issues before anything else
GetCommitFirstCall(includeDetails) == CommitsCall

\* variant: the names in reverse order
BranchNames_Reversed(data) == [i \in 1..Len(data) |-> data[Len(data) + 1 - i].name]

\* line 60: branchesResponse.data.map(branch => branch.name)
BranchNames(data) == [i \in 1..Len(data) |-> data[i].name]

\* lines 75-81: the fields kept of one file entry
FormatFile(file) ==
  [filename |-> file.filename, additions |-> file.additions,
   deletions |-> file.deletions, changes |-> file.changes, patch |-> file.patch]

\* lines 73-89: the CommitDetail built from one detail response
FormatDetail(data) ==
  [sha |-> data.sha,
   author |-> data.commit.author.name,
   date |-> data.commit.author.date,
   message |-> data.commit.message,
   files |-> [i \in 1..Len(data.files) |-> FormatFile(data.files[i])]]

\* variant: fulfils as soon as one mapper promise has fulfilled (Promise.any)
PromiseAllFulfilled_Any(fs) == fs = <<>> \/ \E i \in DOMAIN fs : fs[i] = "ok"

\* Promise.all (line 64) fulfils when every mapper promise has fulfilled
PromiseAllFulfilled(fs) == \A i \in DOMAIN fs : fs[i] = "ok"

\* variant: never rejects, failures are tolerated (Promise.allSettled)
PromiseAllRejected_Never(fs) == FALSE

\* Promise.all rejects as soon as one mapper promise has rejected
PromiseAllRejected(fs) == \E i \in DOMAIN fs : fs[i] = "failed"

\* variant: the values in the order the promises fulfilled
PromiseAllValue_ByCompletion(res, order) == [k \in 1..Len(res) |-> res[order[k]]]

\* the value Promise.all fulfils with: the values by position in the input
PromiseAllValue(res, order) == [i \in 1..Len(res) |-> res[i]]

\* variant: the commit list is not echoed back
SuccessResponse_NoCommits(data, details) ==
  Json([message |-> "Commits processed and sent to Notion API",
        notionResponse |-> data,
        commits |-> <<>>], 200)

\* line 112: the response of updateCommit when the POST succeeded
SuccessResponse(data, details) ==
  Json([message |-> "Commits processed and sent to Notion API",
        notionResponse |-> data,
        commits |-> details], 200)

\* variant: every failure is answered with the generic 500
UpdateCommitCatch_Generic(error) == Json([error |-> "Internal Server Error"], 500)

\* variant: error.response is relayed without checking that it is there
UpdateCommitCatch_NoResponseCheck(error) ==
  Json([error |-> error.response.statusText], error.response.status)

\* lines 113-118: the catch block of updateCommit
UpdateCommitCatch(error) ==
  IF error.isAxiosError /\ error.response.present
  THEN Json([error |-> error.response.statusText], error.response.status)
  ELSE Json([error |-> "Internal Server Error"], 500)

\* ------------------------------------------------------------------ Init
Init ==
  /\ env \in Environments
  /\ pc = "idle"
  /\ eventType = Undef
  /\ calls = <<>>
  /\ stubs = <<>>
  /\ branchData = <<>>
  /\ listState = "none"
  /\ fetchState = <<>>
  /\ results = <<>>
  /\ completed = <<>>
  /\ branchState = "none"
  /\ commitDetails = <<>>
  /\ posted = <<>>
  /\ postOutcome = NoOutcome
  /\ response = NoResponse

\* ---------------------------------------------------------------- actions
\* POST (lines 121-137) up to its first await, or to its return
POST(ev) ==
  /\ pc = "idle"
  /\ eventType' = ev
  /\ IF GateRejects
     THEN /\ response' = Json([error |-> "Environment variables not set correctly."], 500)
          /\ pc' = "done"
          /\ UNCHANGED <<calls, listState>>
     ELSE IF Dispatch(ev) = "unsupported"
     THEN /\ response' = Json([message |-> "Event not supported"], 400)
          /\ pc' = "done"
          /\ UNCHANGED <<calls, listState>>
     ELSE /\ calls' = Append(calls, GetCommitFirstCall(Dispatch(ev) = "push"))
          /\ listState' = "pending"
          /\ pc' = "listing"
          /\ UNCHANGED response
  /\ UNCHANGED <<env, stubs, branchData, fetchState, results, completed, branchState,
                 commitDetails, posted, postOutcome>>

\* the commit-list call answers (line 50); getCommit goes on to the branches
\* call (lines 52-58) or fires every detail fetch (lines 64-71)
CommitListOk(list) ==
  /\ pc = "listing"
  /\ listState' = "ok"
  /\ stubs' = list
  /\ IF ~IncludeDetails
     THEN /\ calls' = Append(calls, BranchesCall)
          /\ branchState' = "pending"
          /\ pc' = "branches"
          /\ UNCHANGED <<fetchState, results>>
     ELSE /\ calls' = calls \o [i \in 1..Len(list) |-> DetailCall(list[i].sha)]
          /\ fetchState' = [i \in 1..Len(list) |-> "pending"]
          /\ results' = [i \in 1..Len(list) |-> NoResult]
          /\ pc' = "details"
          /\ UNCHANGED branchState
  /\ UNCHANGED <<env, eventType, branchData, completed, commitDetails, posted,
                 postOutcome, response>>

\* the commit-list call fails: caught, logged and rethrown (lines 94-97);
\* POST has no try around getCommit
CommitListFail ==
  /\ pc = "listing"
  /\ listState' = "failed"
  /\ pc' = "threw"
  /\ UNCHANGED <<env, eventType, calls, stubs, branchData, fetchState, results, completed,
                 branchState, commitDetails, posted, postOutcome, response>>

\* the branches call answers: lines 60-61, then line 133
BranchesOk(data) ==
  /\ pc = "branches"
  /\ branchState' = "ok"
  /\ branchData' = data
  /\ response' = Json([branches |-> BranchNames(data)], 200)
  /\ pc' = "done"
  /\ UNCHANGED <<env, eventType, calls, stubs, listState, fetchState, results, completed,
                 commitDetails, posted, postOutcome>>

BranchesFail ==
  /\ pc = "branches"
  /\ branchState' = "failed"
  /\ pc' = "threw"
  /\ UNCHANGED <<env, eventType, calls, stubs, branchData, listState, fetchState, results,
                 completed, commitDetails, posted, postOutcome, response>>

\* one detail fetch answers and its mapper returns (lines 73-89)
DetailOk(i) ==
  /\ pc \in {"details", "threw"}
  /\ i \in DOMAIN fetchState
  /\ fetchState[i] = "pending"
  /\ fetchState' = [fetchState EXCEPT ![i] = "ok"]
  /\ results' = [results EXCEPT ![i] = FormatDetail(UpstreamDetail(stubs[i].sha))]
  /\ completed' = Append(completed, i)
  /\ UNCHANGED <<env, pc, eventType, calls, stubs, branchData, listState, branchState,
                 commitDetails, posted, postOutcome, response>>

\* one detail fetch fails: its mapper rejects, Promise.all rejects, getCommit
\* rethrows (lines 94-97) and POST rejects
DetailFail(i) ==
  /\ pc \in {"details", "threw"}
  /\ i \in DOMAIN fetchState
  /\ fetchState[i] = "pending"
  /\ fetchState' = [fetchState EXCEPT ![i] = "failed"]
  /\ pc' = IF pc = "details" /\ PromiseAllRejected(fetchState') THEN "threw" ELSE pc
  /\ UNCHANGED <<env, eventType, calls, stubs, branchData, listState, results, completed,
                 branchState, commitDetails, posted, postOutcome, response>>

\* one detail fetch never answers: axios.get is given no timeout (lines 67-71)
DetailHang(i) ==
  /\ pc \in {"details", "threw"}
  /\ i \in DOMAIN fetchState
  /\ fetchState[i] = "pending"
  /\ fetchState' = [fetchState EXCEPT ![i] = "hung"]
  /\ UNCHANGED <<env, pc, eventType, calls, stubs, branchData, listState, results, completed,
                 branchState, commitDetails, posted, postOutcome, response>>

\* Promise.all fulfils, getCommit returns (line 93), POST calls updateCommit
\* (line 130), which issues the downstream POST (lines 102-110)
PromiseAllResolve ==
  /\ pc = "details"
  /\ PromiseAllFulfilled(fetchState)
  /\ commitDetails' = PromiseAllValue(results, completed)
  /\ posted' = Append(posted, commitDetails')
  /\ calls' = Append(calls, PostCall)
  /\ pc' = "posting"
  /\ UNCHANGED <<env, eventType, stubs, branchData, listState, fetchState, results, completed,
                 branchState, postOutcome, response>>

\* the downstream POST succeeds (line 112)
PostOk(data) ==
  /\ pc = "posting"
  /\ postOutcome' = [kind |-> "ok", status |-> 200, statusText |-> "OK", data |-> data]
  /\ response' = SuccessResponse(data, commitDetails)
  /\ pc' = "done"
  /\ UNCHANGED <<env, eventType, calls, stubs, branchData, listState, fetchState, results,
                 completed, branchState, commitDetails, posted>>

\* the downstream POST throws (lines 113-118)
PostFail(error) ==
  /\ pc = "posting"
  /\ postOutcome' = [kind |-> IF error.response.present THEN "http" ELSE "network",
                     status |-> error.response.status,
                     statusText |-> error.response.statusText,
                     data |-> ""]
  /\ response' = UpdateCommitCatch(error)
  /\ pc' = "done"
  /\ UNCHANGED <<env, eventType, calls, stubs, branchData, listState, fetchState, results,
                 completed, branchState, commitDetails, posted>>

Next ==
  \/ \E ev \in EventHeaders : POST(ev)
  \/ \E list \in CommitLists : CommitListOk(list)
  \/ CommitListFail
  \/ \E data \in BranchLists : BranchesOk(data)
  \/ BranchesFail
  \/ \E i \in 1..MaxCommits : DetailOk(i)
  \/ \E i \in 1..MaxCommits : DetailFail(i)
  \/ \E i \in 1..MaxCommits : DetailHang(i)
  \/ PromiseAllResolve
  \/ \E data \in DownstreamBodies : PostOk(data)
  \/ \E error \in {HttpError(e) : e \in DownstreamErrors} \cup NetworkErrors : PostFail(error)

Spec == Init /\ [][Next]_vars


\* ---------------------------------------------------------------- claims
MissingConfig == \E n \in EnvNames : ~Truthy(env[n])
ConfigError == Json([error |-> "Environment variables not set correctly."], 500)
KindsCalled == {calls[k].kind : k \in 1..Len(calls)}
PushRequest == pc # "idle" /\ ~GateRejects /\ eventType = Str("push")
BranchRequest == pc # "idle" /\ ~GateRejects /\ eventType = Str("getBranch")

\* C1: whenever one of the four configuration values (owner, repository
\* name, token, downstream base URL) is missing or empty, the request is
\* answered with the misconfiguration error, status 500, and no outbound
\* call is made, whatever the event type.
C1_MissingConfigRejected ==
  (pc # "idle" /\ MissingConfig) =>
    /\ response = ConfigError
    /\ calls = <<>>
    /\ posted = <<>>

\* the detail of stub i as the upstream holds it
IsDetailOf(d, stub) ==
  LET u == UpstreamDetail(stub.sha)
  IN /\ d.sha = stub.sha
     /\ d.author = u.commit.author.name
     /\ d.date = u.commit.author.date
     /\ d.message = u.commit.message
     /\ Len(d.files) = Len(u.files)
     /\ \A j \in 1..Len(u.files) :
          /\ d.files[j].filename = u.files[j].filename
          /\ d.files[j].additions = u.files[j].additions
          /\ d.files[j].deletions = u.files[j].deletions
          /\ d.files[j].changes = u.files[j].changes
          /\ d.files[j].patch = u.files[j].patch

\* C2: on a push request, once all N detail fetches have succeeded and the
\* handler has moved on, exactly one list was posted downstream, it has N
\* entries and entry i is the detail of stub i, whatever the order in which
\* the fetches completed.
C2_PostedInStubOrder ==
  /\ (PushRequest /\ pc \in {"posting", "done"}) => Len(posted) = 1
  /\ \A k \in 1..Len(posted) :
       /\ Len(posted[k]) = Len(stubs)
       /\ \A i \in 1..Len(stubs) : IsDetailOf(posted[k][i], stubs[i])

C2_Witness ==
  /\ PushRequest
  /\ Len(posted) = 1
  /\ Len(stubs) = 3
  /\ completed = <<3, 1, 2>>
  /\ stubs[1].sha # stubs[2].sha
  /\ stubs[2].sha # stubs[3].sha

\* C3: on a getBranch request no detail fetch and no downstream POST is ever
\* issued, and once the branches call has succeeded the response is 200 with
\* the branch names of the upstream answer in upstream order.
C3_BranchList ==
  BranchRequest =>
    /\ "detail" \notin KindsCalled
    /\ "post" \notin KindsCalled
    /\ posted = <<>>
    /\ branchState = "ok" =>
         /\ pc = "done"
         /\ response.status = 200
         /\ DOMAIN response.body = {"branches"}
         /\ Len(response.body.branches) = Len(branchData)
         /\ \A i \in 1..Len(branchData) : response.body.branches[i] = branchData[i].name

C3_Witness ==
  /\ BranchRequest
  /\ branchState = "ok"
  /\ Len(branchData) = 2
  /\ branchData[1].name # branchData[2].name
  /\ response.status = 200

\* C4: a request that passes the configuration gate with an event-type
\* header other than "push" and "getBranch" (absent header included) is
\* answered with {message: "Event not supported"}, status 400.
C4_UnsupportedEvent ==
  (pc # "idle" /\ ~GateRejects /\ eventType \notin {Str("push"), Str("getBranch")}) =>
    /\ pc = "done"
    /\ response = Json([message |-> "Event not supported"], 400)

C4_Witness ==
  /\ pc = "done"
  /\ ~GateRejects
  /\ eventType = Str("Push")
  /\ response.status = 400

\* C5: when the downstream POST ends with an HTTP error response of status S
\* and status text T, the handler answers with status S and body {error: T}.
C5_DownstreamErrorRelayed ==
  postOutcome.kind = "http" =>
    /\ pc = "done"
    /\ response = Json([error |-> postOutcome.statusText], postOutcome.status)

C5_Witness ==
  /\ PushRequest
  /\ postOutcome.kind = "http"
  /\ postOutcome.status = 429
  /\ response = Json([error |-> "Too Many Requests"], 429)

\* C6: when the downstream POST fails without an HTTP response, the handler
\* answers with status 500 and body {error: "Internal Server Error"}; once
\* the POST has been sent the request never ends as an uncaught failure.
C6_NetworkFailureIs500 ==
  /\ postOutcome.kind = "network" =>
       /\ pc = "done"
       /\ response = Json([error |-> "Internal Server Error"], 500)
  /\ posted # <<>> => pc # "threw"

C6_Witness ==
  /\ PushRequest
  /\ postOutcome.kind = "network"
  /\ response.status = 500

\* C7: when the downstream POST succeeds, the handler answers with status
\* 200, the downstream body unchanged, and the commit list that was posted.
C7_SuccessEchoesCommits ==
  postOutcome.kind = "ok" =>
    /\ pc = "done"
    /\ response.status = 200
    /\ response.body.notionResponse = postOutcome.data
    /\ Len(posted) = 1
    /\ response.body.commits = posted[1]

C7_Witness ==
  /\ PushRequest
  /\ postOutcome.kind = "ok"
  /\ Len(posted[1]) = 2
  /\ posted[1][1].sha # posted[1][2].sha

\* C8: on a push request, when the commit-list call or one of the detail
\* fetches has failed, nothing is posted downstream, the handler returns no
\* response and the request has ended as an uncaught failure.
C8_FetchFailureIsFatal ==
  (PushRequest /\ (listState = "failed" \/ \E i \in DOMAIN fetchState : fetchState[i] = "failed")) =>
    /\ pc = "threw"
    /\ posted = <<>>
    /\ "post" \notin KindsCalled
    /\ response = NoResponse

C8_Witness ==
  /\ PushRequest
  /\ Len(fetchState) = 3
  /\ fetchState[1] = "ok"
  /\ fetchState[2] = "failed"
  /\ fetchState[3] = "ok"
  /\ pc = "threw"

\* C9: the commit-list call is the first outbound call of every request that
\* makes one; the branches call is only issued once the commit-list call has
\* succeeded, and a failed commit-list call ends a getBranch request as a
\* failure without a branches call.
C9_CommitListFirst ==
  /\ calls # <<>> => calls[1].kind = "commits"
  /\ (PushRequest \/ BranchRequest) => calls # <<>>
  /\ \A k \in 1..Len(calls) : calls[k].kind = "branches" => (k > 1 /\ listState = "ok")
  /\ (BranchRequest /\ listState = "failed") =>
       /\ "branches" \notin KindsCalled
       /\ pc = "threw"
       /\ response = NoResponse

C9_Witness ==
  /\ BranchRequest
  /\ listState = "failed"
  /\ calls = <<CommitsCall>>

\* C10: the downstream POST is issued at most once and only when every
\* detail fetch has succeeded; while a detail fetch is pending, or once one
\* hangs for good, nothing has been posted and no response has been returned.
C10_PostAfterAllDetails ==
  /\ Len(posted) <= 1
  /\ Cardinality({k \in 1..Len(calls) : calls[k].kind = "post"}) <= 1
  /\ posted # <<>> => \A i \in DOMAIN fetchState : fetchState[i] = "ok"
  /\ (\E i \in DOMAIN fetchState : fetchState[i] \in {"pending", "hung"}) =>
       /\ posted = <<>>
       /\ "post" \notin KindsCalled
       /\ response = NoResponse

C10_Witness ==
  /\ PushRequest
  /\ pc = "details"
  /\ Len(fetchState) = 3
  /\ fetchState[1] = "ok"
  /\ fetchState[2] = "hung"
  /\ fetchState[3] = "ok"

====
